---- MODULE Spec2Model ----
(***************************************************************************)
(* CompositeLogger (src/lib.rs): a logger that owns a sequence of boxed    *)
(* `Log` sinks and fans every call out to them, together with the global   *)
(* registration of the `log` facade it installs itself into                *)
(* (log::set_boxed_logger, log::set_max_level, log::logger).               *)
(*                                                                         *)
(*   DispatchSpec  one dispatcher value: with_logger, then enabled / log / *)
(*                 flush called on it directly.                            *)
(*   Spec          several threads racing try_init / init on the global    *)
(*                 slot, with calls arriving at the global endpoint.       *)
(*   SeqSpec       the same registration calls, one caller at a time.      *)
(*   CallSpec      threads calling log on the registered dispatcher at the *)
(*                 same time, one sink at a time.                          *)
(*   FairSpec      threads that register and then call the endpoint, under *)
(*                 a fair scheduler.                                       *)
(***************************************************************************)
EXTENDS Integers, Sequences, FiniteSets

VARIABLES builder, lastCall, self, pc, mode, r, state, LOGGER, MAX_LOG_LEVEL_FILTER,
          program, ip, it, received

vars == <<builder, lastCall, self, pc, mode, r, state, LOGGER, MAX_LOG_LEVEL_FILTER,
          program, ip, it, received>>

regVars == <<self, pc, mode, r, state, LOGGER, MAX_LOG_LEVEL_FILTER>>

callVars == <<program, ip, it, received>>

(***************************************************************************)
(* Bounds of the model.                                                    *)
(***************************************************************************)
MaxSinks == 3

NumThreads == 2

(***************************************************************************)
(* log::Level is Error = 1 .. Trace = 5; log::LevelFilter adds Off = 0.    *)
(* LevelFilter::max() is Trace.                                            *)
(***************************************************************************)
Off == 0

Error == 1

Warn == 2

Info == 3

Debug == 4

Trace == 5

LevelFilterMax == Trace

Levels == Error..Trace

Metadata == [level : Levels]

Payloads == {"a", "b"}

Record == [metadata : Metadata, args : Payloads]

Threads == 1..NumThreads

(***************************************************************************)
(* A sink is opaque to the dispatcher: a boxed `dyn Log`.  The model keeps *)
(* of it the pure predicate its enabled() computes (the set of levels it   *)
(* accepts) and the identity of the box (the ordinal of the with_logger    *)
(* call that moved it in).                                                 *)
(***************************************************************************)
ThresholdFilter(f) == {l \in Levels : l <= f}

OnlyInfo == {Info}

SinkKinds == {ThresholdFilter(f) : f \in Off..Trace} \cup {OnlyInfo}

Box(filter, id) == [filter |-> filter, id |-> id]

SinkEnabled(logger, metadata) == metadata.level \in logger.filter

Invocation(op, at, logger, arg) == [op |-> op, at |-> at, sink |-> logger.id, arg |-> arg]

NoArg == "-"

(***************************************************************************)
(* CompositeLogger::new and CompositeLogger::with_logger.                  *)
(***************************************************************************)
new == <<>>

\* with_logger leaving out a sink whose like is already there.
with_logger_dedup(loggers, logger) ==
    IF \E i \in 1..Len(loggers) : loggers[i].filter = logger.filter
    THEN loggers
    ELSE Append(loggers, logger)

\* with_logger putting the new sink in front instead of at the end.
with_logger_prepend(loggers, logger) == <<logger>> \o loggers

with_logger(loggers, logger) == Append(loggers, logger)

(***************************************************************************)
(* impl Log for CompositeLogger.  Each operator returns what the call      *)
(* returns together with the sink invocations it makes, in the order it    *)
(* makes them.  Iterator::any stops at the first true; filter + for_each   *)
(* is lazy, so each sink is filtered and then served before the next one   *)
(* is looked at.                                                           *)
(***************************************************************************)
RECURSIVE any_enabled(_, _, _)
any_enabled(loggers, metadata, i) ==
    IF i > Len(loggers)
    THEN [result |-> FALSE, calls |-> <<>>]
    ELSE LET query == Invocation("enabled", i, loggers[i], metadata)
         IN  IF SinkEnabled(loggers[i], metadata)
             THEN [result |-> TRUE, calls |-> <<query>>]
             ELSE LET rest == any_enabled(loggers, metadata, i + 1)
                  IN  [result |-> rest.result, calls |-> <<query>> \o rest.calls]

\* enabled asking whether every sink accepts (all instead of any).
RECURSIVE all_enabled(_, _, _)
all_enabled(loggers, metadata, i) ==
    IF i > Len(loggers)
    THEN [result |-> TRUE, calls |-> <<>>]
    ELSE LET query == Invocation("enabled", i, loggers[i], metadata)
         IN  IF ~SinkEnabled(loggers[i], metadata)
             THEN [result |-> FALSE, calls |-> <<query>>]
             ELSE LET rest == all_enabled(loggers, metadata, i + 1)
                  IN  [result |-> rest.result, calls |-> <<query>> \o rest.calls]

enabled_all(loggers, metadata) == all_enabled(loggers, metadata, 1)

\* enabled asking every sink, with no early exit (a fold instead of any).
RECURSIVE fold_enabled(_, _, _)
fold_enabled(loggers, metadata, i) ==
    IF i > Len(loggers)
    THEN [result |-> FALSE, calls |-> <<>>]
    ELSE LET query == Invocation("enabled", i, loggers[i], metadata)
             rest == fold_enabled(loggers, metadata, i + 1)
         IN  [result |-> SinkEnabled(loggers[i], metadata) \/ rest.result,
              calls |-> <<query>> \o rest.calls]

enabled_exhaustive(loggers, metadata) == fold_enabled(loggers, metadata, 1)

\* enabled starting its scan one sink late.
enabled_skip_first(loggers, metadata) == any_enabled(loggers, metadata, 2)

enabled(loggers, metadata) == any_enabled(loggers, metadata, 1)

RECURSIVE filter_for_each_log(_, _, _)
filter_for_each_log(loggers, record, i) ==
    IF i > Len(loggers)
    THEN <<>>
    ELSE LET query == Invocation("enabled", i, loggers[i], record.metadata)
             serve == Invocation("log", i, loggers[i], record)
         IN  (IF SinkEnabled(loggers[i], record.metadata)
              THEN <<query, serve>>
              ELSE <<query>>) \o filter_for_each_log(loggers, record, i + 1)

\* log filtering all the sinks first and serving the accepted ones afterwards
\* (collecting the filter's result before the for_each).
log_collect_then_serve(loggers, record) ==
    [result |-> NoArg,
     calls |-> SelectSeq(filter_for_each_log(loggers, record, 1), LAMBDA c : c.op = "enabled")
               \o SelectSeq(filter_for_each_log(loggers, record, 1), LAMBDA c : c.op = "log")]

\* log serving only the first sink that accepts (find instead of filter).
RECURSIVE find_log(_, _, _)
find_log(loggers, record, i) ==
    IF i > Len(loggers)
    THEN <<>>
    ELSE LET query == Invocation("enabled", i, loggers[i], record.metadata)
             serve == Invocation("log", i, loggers[i], record)
         IN  IF SinkEnabled(loggers[i], record.metadata)
             THEN <<query, serve>>
             ELSE <<query>> \o find_log(loggers, record, i + 1)

log_first_only(loggers, record) == [result |-> NoArg, calls |-> find_log(loggers, record, 1)]

log(loggers, record) == [result |-> NoArg, calls |-> filter_for_each_log(loggers, record, 1)]

RECURSIVE for_each_flush(_, _)
for_each_flush(loggers, i) ==
    IF i > Len(loggers)
    THEN <<>>
    ELSE <<Invocation("flush", i, loggers[i], NoArg)>> \o for_each_flush(loggers, i + 1)

\* flush passing over the sinks that accept nothing.
flush_enabled_only(loggers) ==
    [result |-> NoArg,
     calls |-> SelectSeq(for_each_flush(loggers, 1),
                         LAMBDA c : loggers[c.at].filter /= {})]

flush(loggers) == [result |-> NoArg, calls |-> for_each_flush(loggers, 1)]

(***************************************************************************)
(* The log facade's process-wide statics: STATE (`state`), LOGGER, which   *)
(* starts as the NopLogger, and MAX_LOG_LEVEL_FILTER, which starts Off.    *)
(* A LOGGER value is the dispatcher with the thread that built it (0: the  *)
(* NopLogger).                                                             *)
(***************************************************************************)
NopLogger == [owner |-> 0, loggers |-> new]

Installed(t, loggers) == [owner |-> t, loggers |-> loggers]

\* logger() handing out LOGGER without looking at STATE.
logger_unchecked == LOGGER

\* log::logger(): the installed logger once STATE is INITIALIZED, else the NopLogger.
logger == IF state = "INITIALIZED" THEN LOGGER ELSE NopLogger

\* log::max_level() and the level test every log macro makes first.
max_level == MAX_LOG_LEVEL_FILTER

level_passes(metadata) == metadata.level <= max_level

NoOut == [result |-> NoArg, calls |-> <<>>]

\* The NopLogger accepts nothing and does nothing.
target_enabled(target, metadata) ==
    IF target.owner = 0 THEN [result |-> FALSE, calls |-> <<>>]
    ELSE enabled(target.loggers, metadata)

target_log(target, record) ==
    IF target.owner = 0 THEN NoOut ELSE log(target.loggers, record)

target_flush(target) ==
    IF target.owner = 0 THEN NoOut ELSE flush(target.loggers)

(***************************************************************************)
(* The record of the most recent call: the operation and its argument;     *)
(* how it was made ("self": a method of a dispatcher value, "logger": on   *)
(* log::logger(), "macro": log! or log_enabled!); the logger it ran on;    *)
(* `pre`: the global slot was not yet registered when it was made;         *)
(* `passed`: it got past the global level test; and what the call returned *)
(* and which sink operations it invoked, in order.                         *)
(***************************************************************************)
CallRecord(op, arg, via, target, passed, out) ==
    [op |-> op, arg |-> arg, via |-> via, owner |-> target.owner,
     loggers |-> target.loggers, pre |-> (state /= "INITIALIZED"),
     passed |-> passed, result |-> out.result, calls |-> out.calls]

NoCall ==
    [op |-> "none", arg |-> NoArg, via |-> "self", owner |-> 0, loggers |-> new,
     pre |-> TRUE, passed |-> TRUE, result |-> NoArg, calls |-> <<>>]

(***************************************************************************)
(* The application building one dispatcher and calling it directly.        *)
(***************************************************************************)
BuilderWithLogger ==
    /\ Len(builder) < MaxSinks
    /\ \E filter \in SinkKinds :
          builder' = with_logger(builder, Box(filter, Len(builder) + 1))
    /\ UNCHANGED <<lastCall, regVars, callVars>>

BuilderEnabled ==
    /\ \E metadata \in Metadata :
          lastCall' = CallRecord("enabled", metadata, "self", Installed(0, builder), TRUE,
                                 enabled(builder, metadata))
    /\ UNCHANGED <<builder, regVars, callVars>>

BuilderLog ==
    /\ \E record \in Record :
          lastCall' = CallRecord("log", record, "self", Installed(0, builder), TRUE,
                                 log(builder, record))
    /\ UNCHANGED <<builder, regVars, callVars>>

BuilderFlush ==
    /\ lastCall' = CallRecord("flush", NoArg, "self", Installed(0, builder), TRUE,
                              flush(builder))
    /\ UNCHANGED <<builder, regVars, callVars>>

(***************************************************************************)
(* Registration.  Thread t owns the dispatcher self[t] and moves it into   *)
(* try_init or init.  log::set_boxed_logger is a compare-exchange on STATE *)
(* (UNINITIALIZED -> INITIALIZING); the winner writes LOGGER and then      *)
(* stores INITIALIZED; a caller that finds INITIALIZING spins until the    *)
(* winner is through and then fails; one that finds INITIALIZED fails.     *)
(***************************************************************************)
Ok == "Ok"

\* The process is alive: no panic has aborted it.
Running == \A t \in Threads : pc[t] /= "aborted"

Err == "SetLoggerError"

\* set_boxed_logger treating an already installed logger as success.
set_boxed_logger_cas_idempotent(t) ==
    /\ state' = IF state = "UNINITIALIZED" THEN "INITIALIZING" ELSE state
    /\ pc' = [pc EXCEPT ![t] = CASE state = "UNINITIALIZED" -> "write"
                                 [] state = "INITIALIZING" -> "spin"
                                 [] OTHER -> "is_ok"]
    /\ r' = [r EXCEPT ![t] = IF state = "INITIALIZED" THEN Ok ELSE @]
    /\ UNCHANGED <<LOGGER, MAX_LOG_LEVEL_FILTER>>

\* set_boxed_logger taking the slot whatever STATE is (a store, not a compare-exchange).
set_boxed_logger_cas_overwrite(t) ==
    /\ state' = "INITIALIZING"
    /\ pc' = [pc EXCEPT ![t] = "write"]
    /\ r' = r
    /\ UNCHANGED <<LOGGER, MAX_LOG_LEVEL_FILTER>>

set_boxed_logger_cas(t) ==
    /\ state' = IF state = "UNINITIALIZED" THEN "INITIALIZING" ELSE state
    /\ pc' = [pc EXCEPT ![t] = CASE state = "UNINITIALIZED" -> "write"
                                 [] state = "INITIALIZING" -> "spin"
                                 [] OTHER -> "is_ok"]
    /\ r' = [r EXCEPT ![t] = IF state = "INITIALIZED" THEN Err ELSE @]
    /\ UNCHANGED <<LOGGER, MAX_LOG_LEVEL_FILTER>>

\* try_init(self): enters log::set_boxed_logger(Box::new(self)).
try_init(t) ==
    /\ Running
    /\ pc[t] = "start"
    /\ mode' = [mode EXCEPT ![t] = "try_init"]
    /\ set_boxed_logger_cas(t)
    /\ UNCHANGED <<builder, lastCall, self, callVars>>

\* init(self): self.try_init().expect(..).
init(t) ==
    /\ Running
    /\ pc[t] = "start"
    /\ mode' = [mode EXCEPT ![t] = "init"]
    /\ set_boxed_logger_cas(t)
    /\ UNCHANGED <<builder, lastCall, self, callVars>>

set_boxed_logger_write(t) ==
    /\ Running
    /\ pc[t] = "write"
    /\ LOGGER' = Installed(t, self[t])
    /\ pc' = [pc EXCEPT ![t] = "store"]
    /\ UNCHANGED <<builder, lastCall, self, mode, r, state, MAX_LOG_LEVEL_FILTER, callVars>>

set_boxed_logger_store(t) ==
    /\ Running
    /\ pc[t] = "store"
    /\ state' = "INITIALIZED"
    /\ r' = [r EXCEPT ![t] = Ok]
    /\ pc' = [pc EXCEPT ![t] = "is_ok"]
    /\ UNCHANGED <<builder, lastCall, self, mode, LOGGER, MAX_LOG_LEVEL_FILTER, callVars>>

\* The waiting caller leaving the loop only while the winner is still writing.
set_boxed_logger_spin_while_ready(t) ==
    /\ Running
    /\ pc[t] = "spin"
    /\ state = "INITIALIZING"
    /\ r' = [r EXCEPT ![t] = Err]
    /\ pc' = [pc EXCEPT ![t] = "is_ok"]
    /\ UNCHANGED <<builder, lastCall, self, mode, state, LOGGER, MAX_LOG_LEVEL_FILTER, callVars>>

\* The caller that waited for the winner reporting success itself.
set_boxed_logger_spin_ok(t) ==
    /\ Running
    /\ pc[t] = "spin"
    /\ state /= "INITIALIZING"
    /\ r' = [r EXCEPT ![t] = Ok]
    /\ pc' = [pc EXCEPT ![t] = "is_ok"]
    /\ UNCHANGED <<builder, lastCall, self, mode, state, LOGGER, MAX_LOG_LEVEL_FILTER, callVars>>

set_boxed_logger_spin(t) ==
    /\ Running
    /\ pc[t] = "spin"
    /\ state /= "INITIALIZING"
    /\ r' = [r EXCEPT ![t] = Err]
    /\ pc' = [pc EXCEPT ![t] = "is_ok"]
    /\ UNCHANGED <<builder, lastCall, self, mode, state, LOGGER, MAX_LOG_LEVEL_FILTER, callVars>>

\* try_init raising the global level without looking at the result.
set_max_level_always(res) == LevelFilterMax

\* try_init raising the global level on the error instead of on Ok.
set_max_level_inverted(res) == IF res = Err THEN LevelFilterMax ELSE MAX_LOG_LEVEL_FILTER

\* try_init never raising the global level.
set_max_level_never(res) == MAX_LOG_LEVEL_FILTER

\* log::set_max_level(LevelFilter::max()) when r.is_ok().
set_max_level_if_ok(res) == IF res = Ok THEN LevelFilterMax ELSE MAX_LOG_LEVEL_FILTER

\* init panicking whatever try_init returned.
expect_always_panics(m, res) == IF m = "init" THEN {"panicked", "aborted"} ELSE {"returned"}

\* init dropping the error instead of panicking.
expect_ignored(m, res) == {"returned"}

\* How the call can end.  try_init returns r.  init's expect panics on an error:
\* the panic unwinds the calling thread ("panicked"; the other threads go on) or,
\* on the main thread or in a build with panic = "abort", ends the process
\* ("aborted").  Which one is not the dispatcher's to decide.
expect(m, res) == IF m = "init" /\ res = Err THEN {"panicked", "aborted"} ELSE {"returned"}

try_init_return(t) ==
    /\ Running
    /\ pc[t] = "is_ok"
    /\ MAX_LOG_LEVEL_FILTER' = set_max_level_if_ok(r[t])
    /\ \E end \in expect(mode[t], r[t]) : pc' = [pc EXCEPT ![t] = end]
    /\ UNCHANGED <<builder, lastCall, self, mode, r, state, LOGGER, callVars>>

(***************************************************************************)
(* Calls arriving at the global endpoint, from any thread at any time.     *)
(* The events tried: one every sink kind in use accepts or not (Error,     *)
(* Info) and one none of them accepts (Trace).                             *)
(***************************************************************************)
EndpointMetadata == {m \in Metadata : m.level \in {Error, Info, Trace}}

EndpointRecord == {rec \in Record : rec.metadata \in EndpointMetadata /\ rec.args = "a"}

\* log!(..): the level test, then log::logger().log(&record).
log_macro ==
    /\ Running
    /\ \E record \in EndpointRecord :
          lastCall' = IF level_passes(record.metadata)
                      THEN CallRecord("log", record, "macro", logger, TRUE,
                                      target_log(logger, record))
                      ELSE CallRecord("log", record, "macro", logger, FALSE, NoOut)
    /\ UNCHANGED <<builder, regVars, callVars>>

\* log_enabled!(..): the level test && log::logger().enabled(&metadata).
log_enabled_macro ==
    /\ Running
    /\ \E metadata \in EndpointMetadata :
          lastCall' = IF level_passes(metadata)
                      THEN CallRecord("enabled", metadata, "macro", logger, TRUE,
                                      target_enabled(logger, metadata))
                      ELSE CallRecord("enabled", metadata, "macro", logger, FALSE,
                                      [result |-> FALSE, calls |-> <<>>])
    /\ UNCHANGED <<builder, regVars, callVars>>

\* log taking the sinks out of the installed dispatcher as it goes (drain, not iter).
logger_log_draining ==
    /\ Running
    /\ \E record \in EndpointRecord :
          lastCall' = CallRecord("log", record, "logger", logger, TRUE,
                                 target_log(logger, record))
    /\ LOGGER' = IF state = "INITIALIZED" THEN Installed(LOGGER.owner, new) ELSE LOGGER
    /\ UNCHANGED <<builder, self, pc, mode, r, state, MAX_LOG_LEVEL_FILTER, callVars>>

\* log::logger().log(&record), with no level test.
logger_log ==
    /\ Running
    /\ \E record \in EndpointRecord :
          lastCall' = CallRecord("log", record, "logger", logger, TRUE,
                                 target_log(logger, record))
    /\ UNCHANGED <<builder, regVars, callVars>>

\* log::logger().flush().
logger_flush ==
    /\ Running
    /\ lastCall' = CallRecord("flush", NoArg, "logger", logger, TRUE, target_flush(logger))
    /\ UNCHANGED <<builder, regVars, callVars>>

(***************************************************************************)
(* The same calls one sink at a time, so that calls of several threads     *)
(* interleave.  A thread registers first ("This should be called early in  *)
(* the execution of a Rust program") and then makes the calls of its       *)
(* program on log::logger(): logger_call enters the method and takes       *)
(* self.loggers.iter(), iter_next is one next() of any / filter+for_each / *)
(* for_each with the sink call it makes, iter_end is the return.  A sink   *)
(* keeps what its log received, in the order it was called.                *)
(***************************************************************************)
Call(op, arg, no) == [op |-> op, arg |-> arg, no |-> no]

current(t) == program[t][ip[t] + 1]

Delivery(t, call) == [by |-> t, no |-> call.no, record |-> call.arg]

\* The sink handing the record to whatever comes first in its queue.
sink_log_front(box, i, delivery) == [box EXCEPT ![i] = <<delivery>> \o @]

\* The sink dropping a record it has already been given by another thread.
sink_log_once(box, i, delivery) ==
    IF \E k \in 1..Len(box[i]) : box[i][k].record = delivery.record
    THEN box
    ELSE [box EXCEPT ![i] = Append(@, delivery)]

\* logger.log(record) on the sink at position i.
sink_log(box, i, delivery) == [box EXCEPT ![i] = Append(@, delivery)]

logger_call(t) ==
    /\ Running
    /\ pc[t] = "returned"
    /\ it[t] = 0
    /\ ip[t] < Len(program[t])
    /\ it' = [it EXCEPT ![t] = 1]
    /\ UNCHANGED <<builder, lastCall, regVars, program, ip, received>>

iter_next(t) ==
    /\ Running
    /\ it[t] \in 1..Len(logger.loggers)
    /\ LET call == current(t)
           i == it[t]
           sink == logger.loggers[i]
       IN  CASE call.op = "enabled" ->
                  /\ it' = [it EXCEPT ![t] = IF SinkEnabled(sink, call.arg)
                                             THEN Len(logger.loggers) + 1
                                             ELSE i + 1]
                  /\ received' = received
             [] call.op = "log" ->
                  /\ it' = [it EXCEPT ![t] = i + 1]
                  /\ received' = IF SinkEnabled(sink, call.arg.metadata)
                                 THEN sink_log(received, i, Delivery(t, call))
                                 ELSE received
             [] call.op = "flush" ->
                  /\ it' = [it EXCEPT ![t] = i + 1]
                  /\ received' = received
    /\ UNCHANGED <<builder, lastCall, regVars, program, ip>>

iter_end(t) ==
    /\ Running
    /\ it[t] = Len(logger.loggers) + 1
    /\ it' = [it EXCEPT ![t] = 0]
    /\ ip' = [ip EXCEPT ![t] = @ + 1]
    /\ UNCHANGED <<builder, lastCall, regVars, program, received>>

(***************************************************************************)
(* The dispatchers the threads register, each built with with_logger.      *)
(***************************************************************************)
WarnThenDebug ==
    with_logger(with_logger(new, Box(ThresholdFilter(Warn), 1)),
                Box(ThresholdFilter(Debug), 2))

InfoOnly == with_logger(new, Box(OnlyInfo, 1))

Dispatchers == {new, InfoOnly, WarnThenDebug}

RegInit ==
    /\ self \in [Threads -> Dispatchers]
    /\ pc = [t \in Threads |-> "start"]
    /\ mode = [t \in Threads |-> "none"]
    /\ r = [t \in Threads |-> "none"]
    /\ state = "UNINITIALIZED"
    /\ LOGGER = NopLogger
    /\ MAX_LOG_LEVEL_FILTER = Off

\* No thread has calls of its own to make, and no sink has received anything.
NoCalls ==
    /\ program = [t \in Threads |-> <<>>]
    /\ ip = [t \in Threads |-> 0]
    /\ it = [t \in Threads |-> 0]
    /\ received = [i \in 1..MaxSinks |-> <<>>]

Init ==
    /\ builder = new
    /\ lastCall = NoCall
    /\ RegInit
    /\ NoCalls

Next ==
    \/ \E t \in Threads :
          \/ try_init(t)
          \/ init(t)
          \/ set_boxed_logger_write(t)
          \/ set_boxed_logger_store(t)
          \/ set_boxed_logger_spin(t)
          \/ try_init_return(t)
    \/ log_macro
    \/ log_enabled_macro
    \/ logger_log
    \/ logger_flush

Spec == Init /\ [][Next]_vars

(***************************************************************************)
(* One registration call at a time: a call starts only when no other is    *)
(* under way, so no caller ever finds STATE at INITIALIZING.               *)
(***************************************************************************)
InCall(t) == pc[t] \in {"write", "store", "spin", "is_ok"}

Alone(t) == \A u \in Threads \ {t} : ~InCall(u)

SeqNext ==
    \/ \E t \in Threads : Alone(t) /\ try_init(t)
    \/ \E t \in Threads : Alone(t) /\ init(t)
    \/ \E t \in Threads : Alone(t) /\ set_boxed_logger_write(t)
    \/ \E t \in Threads : Alone(t) /\ set_boxed_logger_store(t)
    \/ \E t \in Threads : Alone(t) /\ try_init_return(t)

SeqSpec == Init /\ [][SeqNext]_vars

(***************************************************************************)
(* One dispatcher built and called directly; nothing is registered.        *)
(***************************************************************************)
DispatchInit ==
    /\ builder = new
    /\ lastCall = NoCall
    /\ self = [t \in Threads |-> new]
    /\ pc = [t \in Threads |-> "start"]
    /\ mode = [t \in Threads |-> "none"]
    /\ r = [t \in Threads |-> "none"]
    /\ state = "UNINITIALIZED"
    /\ LOGGER = NopLogger
    /\ MAX_LOG_LEVEL_FILTER = Off
    /\ NoCalls

DispatchNext ==
    \/ BuilderWithLogger
    \/ BuilderEnabled
    \/ BuilderLog
    \/ BuilderFlush

DispatchSpec == DispatchInit /\ [][DispatchNext]_vars

(***************************************************************************)
(* Threads logging at the same time on a registered dispatcher: thread 1   *)
(* has registered it, the other threads' attempts have failed, and every   *)
(* thread logs two records, one after the other.                           *)
(***************************************************************************)
LogPrograms ==
    { <<Call("log", [metadata |-> [level |-> Error], args |-> "a"], 1),
        Call("log", [metadata |-> [level |-> Info], args |-> "b"], 2)>>,
      <<Call("log", [metadata |-> [level |-> Info], args |-> "a"], 1),
        Call("log", [metadata |-> [level |-> Trace], args |-> "b"], 2)>> }

CallInit ==
    /\ builder = new
    /\ lastCall = NoCall
    /\ \E d \in {InfoOnly, WarnThenDebug} :
          /\ self = [t \in Threads |-> IF t = 1 THEN d ELSE new]
          /\ LOGGER = Installed(1, d)
    /\ pc = [t \in Threads |-> "returned"]
    /\ mode = [t \in Threads |-> "try_init"]
    /\ r = [t \in Threads |-> IF t = 1 THEN Ok ELSE Err]
    /\ state = "INITIALIZED"
    /\ MAX_LOG_LEVEL_FILTER = LevelFilterMax
    /\ program \in [Threads -> LogPrograms]
    /\ ip = [t \in Threads |-> 0]
    /\ it = [t \in Threads |-> 0]
    /\ received = [i \in 1..MaxSinks |-> <<>>]

CallNext ==
    \E t \in Threads :
        \/ logger_call(t)
        \/ iter_next(t)
        \/ iter_end(t)

CallSpec == CallInit /\ [][CallNext]_vars

(***************************************************************************)
(* Threads that each register a dispatcher and then query, log and flush   *)
(* on the endpoint, every thread that can take a step getting to take it.  *)
(***************************************************************************)
FairProgram ==
    <<Call("enabled", [level |-> Info], 1),
      Call("log", [metadata |-> [level |-> Info], args |-> "a"], 2),
      Call("flush", NoArg, 3)>>

FairInit ==
    /\ builder = new
    /\ lastCall = NoCall
    /\ self = [t \in Threads |-> WarnThenDebug]
    /\ pc = [t \in Threads |-> "start"]
    /\ mode = [t \in Threads |-> "none"]
    /\ r = [t \in Threads |-> "none"]
    /\ state = "UNINITIALIZED"
    /\ LOGGER = NopLogger
    /\ MAX_LOG_LEVEL_FILTER = Off
    /\ program = [t \in Threads |-> FairProgram]
    /\ ip = [t \in Threads |-> 0]
    /\ it = [t \in Threads |-> 0]
    /\ received = [i \in 1..MaxSinks |-> <<>>]

ThreadStep(t) ==
    \/ try_init(t)
    \/ init(t)
    \/ set_boxed_logger_write(t)
    \/ set_boxed_logger_store(t)
    \/ set_boxed_logger_spin(t)
    \/ try_init_return(t)
    \/ logger_call(t)
    \/ iter_next(t)
    \/ iter_end(t)

FairNext == \E t \in Threads : ThreadStep(t)

FairSpec ==
    /\ FairInit
    /\ [][FairNext]_vars
    /\ \A t \in Threads : WF_vars(ThreadStep(t))

(***************************************************************************)
(* What the claims read off a call record.                                 *)
(***************************************************************************)
Positions(call) == 1..Len(call.loggers)

Invoked(call, op) == SelectSeq(call.calls, LAMBDA c : c.op = op)

TimesInvoked(call, op, i) ==
    Cardinality({k \in 1..Len(call.calls) : call.calls[k].op = op /\ call.calls[k].at = i})

Accepting(loggers, metadata) ==
    {i \in 1..Len(loggers) : SinkEnabled(loggers[i], metadata)}

OnSelf(op) == lastCall.op = op /\ lastCall.via = "self"

(***************************************************************************)
(* C1: for every sequence of sinks (the empty one included) and every      *)
(* metadata, CompositeLogger::enabled returns true exactly when at least   *)
(* one sink of the sequence accepts the metadata.                          *)
(***************************************************************************)
C1_EnabledIsOr ==
    OnSelf("enabled") =>
        (lastCall.result <=> Accepting(lastCall.loggers, lastCall.arg) /= {})

\* enabled answered true although the first sink rejects.
C1_Witness ==
    /\ OnSelf("enabled")
    /\ Len(lastCall.loggers) >= 2
    /\ 1 \notin Accepting(lastCall.loggers, lastCall.arg)
    /\ lastCall.result = TRUE

(***************************************************************************)
(* C2: one CompositeLogger::log(r) invokes log(r) exactly once on every    *)
(* sink occurrence that accepts r's metadata and never on one that rejects *)
(* it; the dispatcher filters nothing itself, so a record some sink        *)
(* accepts reaches that sink.                                              *)
(***************************************************************************)
C2_LogIffSinkEnabled ==
    OnSelf("log") =>
        /\ \A i \in Positions(lastCall) :
              TimesInvoked(lastCall, "log", i) =
                  IF SinkEnabled(lastCall.loggers[i], lastCall.arg.metadata) THEN 1 ELSE 0
        /\ \A k \in 1..Len(lastCall.calls) :
              LET c == lastCall.calls[k]
              IN  /\ c.at \in Positions(lastCall)
                  /\ c.sink = lastCall.loggers[c.at].id
                  /\ c.op = "log" => c.arg = lastCall.arg

\* Three sinks, the middle one rejecting: two deliveries.
C2_Witness ==
    /\ OnSelf("log")
    /\ Len(lastCall.loggers) = 3
    /\ Accepting(lastCall.loggers, lastCall.arg.metadata) = {1, 3}
    /\ Len(Invoked(lastCall, "log")) = 2

(***************************************************************************)
(* C3: one CompositeLogger::flush() invokes flush() exactly once on every  *)
(* owned sink, in sequence order, whatever the sinks accept, and consults  *)
(* no sink's enabled.                                                      *)
(***************************************************************************)
C3_FlushAll ==
    OnSelf("flush") =>
        lastCall.calls =
            [i \in Positions(lastCall) |->
                Invocation("flush", i, lastCall.loggers[i], NoArg)]

\* A flush over sinks of which one accepts nothing at all.
C3_Witness ==
    /\ OnSelf("flush")
    /\ Len(lastCall.loggers) >= 2
    /\ \E i \in Positions(lastCall) : lastCall.loggers[i].filter = {}
    /\ Len(lastCall.calls) = Len(lastCall.loggers)

(***************************************************************************)
(* C4: dispatch order is insertion order.  with_logger puts the new sink   *)
(* at the end and keeps what was there; and within one log call the sinks  *)
(* served are served in the order they were added (a sink's id is the      *)
(* ordinal of the with_logger call that added it).  With A accepting       *)
(* Warn and above and B accepting Debug and above, added in that order, an *)
(* Info record is served to B alone and an Error record to A and then B.   *)
(***************************************************************************)
Served(call) == [k \in 1..Len(Invoked(call, "log")) |-> Invoked(call, "log")[k].sink]

C4_ServedInInsertionOrder ==
    OnSelf("log") =>
        /\ \A j, k \in 1..Len(Served(lastCall)) :
              j < k => Served(lastCall)[j] < Served(lastCall)[k]
        /\ ( /\ Len(lastCall.loggers) = 2
             /\ lastCall.loggers[1].filter = ThresholdFilter(Warn)
             /\ lastCall.loggers[2].filter = ThresholdFilter(Debug) ) =>
               /\ lastCall.arg.metadata.level = Info => Served(lastCall) = <<2>>
               /\ lastCall.arg.metadata.level = Error => Served(lastCall) = <<1, 2>>

C4_AppendKeepsPrefix ==
    builder' /= builder =>
        /\ Len(builder') = Len(builder) + 1
        /\ SubSeq(builder', 1, Len(builder)) = builder
        /\ builder'[Len(builder')].id = Len(builder')

\* C4: sinks are appended, and served in the order they were appended.
C4_InsertionOrder == [](C4_ServedInInsertionOrder) /\ [][C4_AppendKeepsPrefix]_vars

\* The Error record of the example, served to A and then to B.
C4_Witness ==
    /\ OnSelf("log")
    /\ Len(lastCall.loggers) = 2
    /\ lastCall.loggers[1].filter = ThresholdFilter(Warn)
    /\ lastCall.loggers[2].filter = ThresholdFilter(Debug)
    /\ lastCall.arg.metadata.level = Error
    /\ Served(lastCall) = <<1, 2>>

(***************************************************************************)
(* What the claims read off the registration state.                        *)
(***************************************************************************)
Entered == {t \in Threads : pc[t] /= "start"}

Panicked(t) == pc[t] \in {"panicked", "aborted"}

Done(t) == pc[t] = "returned" \/ Panicked(t)

Finishing(t) == pc[t] = "is_ok" /\ pc'[t] \in {"returned", "panicked", "aborted"}

Winners == {t \in Threads : r[t] = Ok}

Losers == {t \in Threads : r[t] = Err}

ReturnedOk == \E t \in Threads : pc[t] = "returned" /\ r[t] = Ok

(***************************************************************************)
(* C5: with one registration call at a time, from the unregistered slot:   *)
(* a try_init that is the first registration call returns Ok and installs  *)
(* its dispatcher; every try_init made after another call returns the      *)
(* error and leaves the dispatcher installed first as the one the global   *)
(* endpoint hands out.                                                     *)
(***************************************************************************)
C5_Return ==
    \A t \in Threads :
        (Finishing(t) /\ mode[t] = "try_init") =>
            /\ pc'[t] = "returned"
            /\ IF Entered = {t}
               THEN /\ r[t] = Ok
                    /\ logger' = Installed(t, self[t])
               ELSE /\ r[t] = Err
                    /\ logger' = logger
                    /\ \E u \in Entered \ {t} :
                          r[u] = Ok /\ logger = Installed(u, self[u])

\* C5: at every return of a try_init, the first call has Ok and a later one the error.
C5_FirstTryInitWins == [][C5_Return]_vars

\* A later try_init with a different dispatcher has returned the error.
C5_Witness ==
    \E t, u \in Threads :
        /\ pc[t] = "returned" /\ mode[t] = "try_init" /\ r[t] = Err
        /\ pc[u] = "returned" /\ mode[u] = "try_init" /\ r[u] = Ok
        /\ self[t] /= self[u]
        /\ logger = Installed(u, self[u])

(***************************************************************************)
(* C6: threads racing try_init / init on the unregistered slot: at most    *)
(* one caller ever gets Ok; when all have called, exactly one got Ok and   *)
(* every other one the error (init: returned for Ok, panicked for the      *)
(* error); LOGGER is only ever the dispatcher of the caller that won the   *)
(* compare-exchange, never a loser's.                                      *)
(***************************************************************************)
C6_ExactlyOneWinner ==
    /\ Cardinality(Winners) <= 1
    /\ (\A t \in Threads : Done(t)) =>
          /\ Cardinality(Winners) = 1
          /\ Losers = Threads \ Winners
    /\ \A t \in Threads :
          /\ Done(t) => r[t] \in {Ok, Err}
          /\ Panicked(t) => r[t] = Err
          /\ r[t] = Ok => state = "INITIALIZED" /\ LOGGER = Installed(t, self[t])
          /\ r[t] = Err => LOGGER.owner /= t
    /\ LOGGER.owner /= 0 =>
          /\ LOGGER = Installed(LOGGER.owner, self[LOGGER.owner])
          /\ pc[LOGGER.owner] \notin {"start", "write", "spin"}

\* One caller already has Ok while another, which raced it, is still waiting inside.
C6_Witness ==
    \E t, u \in Threads :
        /\ pc[t] = "spin"
        /\ pc[u] = "is_ok" /\ r[u] = Ok
        /\ state = "INITIALIZED"

(***************************************************************************)
(* C7: init on a slot that is already registered panics instead of         *)
(* returning: the call never returns to its caller, whether the panic      *)
(* unwinds the calling thread or aborts the process, and the installed     *)
(* dispatcher stays.                                                       *)
(***************************************************************************)
C7_State ==
    \A t \in Threads :
        /\ (mode[t] = "init" /\ r[t] = Err) =>
              /\ pc[t] = "is_ok" \/ Panicked(t)
              /\ LOGGER.owner /= t
        /\ Panicked(t) =>
              /\ mode[t] = "init" /\ r[t] = Err
              /\ logger.owner \in Threads \ {t}

C7_Step ==
    \A t \in Threads :
        (pc[t] = "start" /\ mode'[t] = "init" /\ state = "INITIALIZED") =>
            /\ r'[t] = Err
            /\ logger' = logger
            /\ pc'[t] = "is_ok"

\* C7: a failed init ends in a panic and leaves the slot alone.
C7_InitPanics == [](C7_State) /\ [][C7_Step]_vars

\* An init that found the slot taken has panicked, and a call has reached the
\* other, still installed dispatcher's sinks.
C7_Witness ==
    \E t \in Threads :
        /\ Panicked(t)
        /\ logger.owner \in Threads \ {t}
        /\ lastCall.owner = logger.owner /\ lastCall.calls /= <<>>

(***************************************************************************)
(* C7 as stated: an init that failed has terminated the program.           *)
(***************************************************************************)
C7_InitTerminatesProgram ==
    \A t \in Threads :
        (mode[t] = "init" /\ r[t] = Err /\ pc[t] /= "is_ok") =>
            /\ ~Running
            /\ LOGGER.owner /= t

(***************************************************************************)
(* C8: once a try_init has returned Ok the global level is                 *)
(* LevelFilter::max(): every level passes the global test, so a call made  *)
(* through the macros from then on is decided by the sinks alone.          *)
(***************************************************************************)
C8_State ==
    ReturnedOk =>
        /\ MAX_LOG_LEVEL_FILTER = LevelFilterMax
        /\ \A m \in Metadata : level_passes(m)

C8_Step ==
    (ReturnedOk /\ (log_macro \/ log_enabled_macro)) =>
        /\ lastCall'.passed
        /\ lastCall'.op = "log" =>
              \A i \in Positions(lastCall') :
                  TimesInvoked(lastCall', "log", i) =
                      IF i \in Accepting(lastCall'.loggers, lastCall'.arg.metadata)
                      THEN 1 ELSE 0
        /\ lastCall'.op = "enabled" =>
              (lastCall'.result <=> Accepting(lastCall'.loggers, lastCall'.arg) /= {})

\* C8: after a successful return the global level lets every record through.
C8_MaxLevelAfterOk == [](C8_State) /\ [][C8_Step]_vars

\* A Trace record logged through the macro got past the global test after registration.
C8_Witness ==
    /\ ReturnedOk
    /\ lastCall.via = "macro" /\ lastCall.op = "log"
    /\ lastCall.arg.metadata.level = Trace
    /\ lastCall.passed /\ ~lastCall.pre

(***************************************************************************)
(* C9: a call at the global endpoint made while the slot is not registered *)
(* reaches no sink, and nothing is kept of it: the sink operations of a    *)
(* call all belong to that call, and the registration steps invoke none.   *)
(***************************************************************************)
AtEndpoint == lastCall.via \in {"macro", "logger"}

C9_State ==
    AtEndpoint =>
        /\ lastCall.pre =>
              /\ lastCall.calls = <<>>
              /\ lastCall.owner = 0
              /\ lastCall.op = "enabled" => lastCall.result = FALSE
        /\ \A k \in 1..Len(lastCall.calls) :
              lastCall.calls[k].op = "log" => lastCall.calls[k].arg = lastCall.arg

C9_Step == regVars' /= regVars => lastCall' = lastCall

\* C9: calls before the registration reach no sink, then or later.
C9_DroppedBeforeRegistration == [](C9_State) /\ [][C9_Step]_vars

\* A record logged before the registration that an installed sink would accept:
\* the registration is through and the record went nowhere.
C9_Witness ==
    /\ lastCall.op = "log" /\ lastCall.via = "logger" /\ lastCall.pre
    /\ state = "INITIALIZED"
    /\ Accepting(logger.loggers, lastCall.arg.metadata) /= {}
    /\ lastCall.calls = <<>>

(***************************************************************************)
(* C10: the slot is written at most once.  It holds no dispatcher or one;  *)
(* once LOGGER is written it never changes, and once STATE is INITIALIZED  *)
(* it stays so with the same dispatcher, whatever is called afterwards.    *)
(***************************************************************************)
C10_State ==
    /\ LOGGER.owner \in {0} \cup Threads
    /\ LOGGER.owner = 0 => LOGGER = NopLogger
    /\ LOGGER.owner /= 0 => LOGGER.loggers = self[LOGGER.owner]
    /\ state = "INITIALIZED" => LOGGER.owner /= 0
    /\ state = "UNINITIALIZED" => LOGGER.owner = 0

C10_Step ==
    /\ LOGGER.owner /= 0 => LOGGER' = LOGGER
    /\ state = "INITIALIZED" => (state' = "INITIALIZED" /\ logger' = logger)
    /\ state /= "UNINITIALIZED" => state' /= "UNINITIALIZED"

\* C10: the slot holds at most one dispatcher and is never rewritten.
C10_WrittenOnce == [](C10_State) /\ [][C10_Step]_vars

\* Registered, a further registration call has failed, and the endpoint has been used since.
C10_Witness ==
    /\ state = "INITIALIZED"
    /\ \E t \in Threads : Done(t) /\ r[t] = Err
    /\ lastCall.op = "flush" /\ ~lastCall.pre
    /\ lastCall.owner = LOGGER.owner

(***************************************************************************)
(* C11: once a dispatcher is registered its sequence of sinks is fixed:    *)
(* it is the sequence its owner built, and no enabled, log or flush call   *)
(* at the endpoint and no step of a registration attempt changes its       *)
(* length, its members or their order; every call at the endpoint runs     *)
(* over exactly that sequence.                                             *)
(***************************************************************************)
EndpointCall == log_macro \/ log_enabled_macro \/ logger_log \/ logger_flush

C11_State == state = "INITIALIZED" => LOGGER.loggers = self[LOGGER.owner]

C11_Step ==
    state = "INITIALIZED" =>
        /\ Len(LOGGER'.loggers) = Len(LOGGER.loggers)
        /\ \A i \in 1..Len(LOGGER.loggers) : LOGGER'.loggers[i] = LOGGER.loggers[i]
        /\ self'[LOGGER.owner] = self[LOGGER.owner]
        /\ EndpointCall => lastCall'.loggers = LOGGER.loggers

\* C11: the registered sequence of sinks never changes.
C11_SinksImmutable == [](C11_State) /\ [][C11_Step]_vars

\* Two sinks registered and both served by a call, after another thread's
\* attempt with a different dispatcher failed.
C11_Witness ==
    /\ state = "INITIALIZED"
    /\ Len(LOGGER.loggers) = 2
    /\ lastCall.op = "log" /\ lastCall.via = "logger" /\ ~lastCall.pre
    /\ Len(Invoked(lastCall, "log")) = 2
    /\ \E t \in Threads : Done(t) /\ r[t] = Err /\ self[t] /= LOGGER.loggers

(***************************************************************************)
(* C12: a dispatcher built with new() and no with_logger: enabled returns  *)
(* false for every metadata, log invokes no sink, flush invokes nothing.   *)
(***************************************************************************)
C12_EmptyDispatcher ==
    (lastCall.via = "self" /\ lastCall.op /= "none" /\ lastCall.loggers = new) =>
        /\ lastCall.calls = <<>>
        /\ lastCall.op = "enabled" => lastCall.result = FALSE

\* enabled asked of the empty dispatcher, at the level every sink kind but Off accepts.
C12_Witness ==
    /\ OnSelf("enabled")
    /\ lastCall.loggers = new /\ builder = new
    /\ lastCall.arg.level = Error
    /\ lastCall.result = FALSE

(***************************************************************************)
(* C13: duplicates are kept and dispatched one by one.  with_logger adds   *)
(* an entry whether or not a like sink is there already; with k entries of *)
(* a kind, one log of a record the kind accepts makes k log invocations on *)
(* them, one per entry, and one flush makes k flush invocations.           *)
(***************************************************************************)
EntriesOf(loggers, filter) == {i \in 1..Len(loggers) : loggers[i].filter = filter}

InvokedOn(call, op, filter) ==
    {k \in 1..Len(call.calls) :
        call.calls[k].op = op /\ call.calls[k].at \in EntriesOf(call.loggers, filter)}

C13_DuplicatesKept ==
    /\ \A filter \in SinkKinds :
          LET added == with_logger(builder, Box(filter, Len(builder) + 1))
          IN  /\ Len(added) = Len(builder) + 1
              /\ Cardinality(EntriesOf(added, filter)) =
                     Cardinality(EntriesOf(builder, filter)) + 1
    /\ \A filter \in SinkKinds :
          LET k == Cardinality(EntriesOf(lastCall.loggers, filter))
          IN  /\ OnSelf("flush") => Cardinality(InvokedOn(lastCall, "flush", filter)) = k
              /\ OnSelf("log") =>
                    /\ Cardinality(InvokedOn(lastCall, "log", filter)) =
                           IF lastCall.arg.metadata.level \in filter THEN k ELSE 0
                    /\ \A i \in EntriesOf(lastCall.loggers, filter) :
                           TimesInvoked(lastCall, "log", i) =
                               IF lastCall.arg.metadata.level \in filter THEN 1 ELSE 0

\* The same kind of sink added three times, and a record it accepts served three times.
C13_Witness ==
    /\ OnSelf("log")
    /\ Len(lastCall.loggers) = 3
    /\ Cardinality(EntriesOf(lastCall.loggers, ThresholdFilter(Info))) = 3
    /\ Len(Invoked(lastCall, "log")) = 3

(***************************************************************************)
(* C17: within one CompositeLogger::log(r) every sink's enabled is asked   *)
(* exactly once, in sequence order, with r's metadata; a sink that accepts *)
(* is served right after its own answer and before the next sink is asked; *)
(* no other enabled is consulted.                                          *)
(***************************************************************************)
Queries(call) == SelectSeq(call.calls, LAMBDA c : c.op = "enabled")

C17_FilterAndServePerSink ==
    OnSelf("log") =>
        LET c == lastCall.calls
            md == lastCall.arg.metadata
        IN  /\ Len(Queries(lastCall)) = Len(lastCall.loggers)
            /\ \A i \in Positions(lastCall) :
                  Queries(lastCall)[i] =
                      Invocation("enabled", i, lastCall.loggers[i], md)
            /\ \A k \in 1..Len(c) :
                  /\ c[k].op \in {"enabled", "log"}
                  /\ c[k].op = "log" =>
                        /\ k > 1
                        /\ c[k - 1].op = "enabled" /\ c[k - 1].at = c[k].at
                  /\ (c[k].op = "enabled" /\ SinkEnabled(lastCall.loggers[c[k].at], md)) =>
                        /\ k < Len(c)
                        /\ c[k + 1].op = "log" /\ c[k + 1].at = c[k].at

\* Three sinks of which the first two accept: five invocations.
C17_Witness ==
    /\ OnSelf("log")
    /\ Len(lastCall.loggers) = 3
    /\ Accepting(lastCall.loggers, lastCall.arg.metadata) = {1, 2}
    /\ Len(lastCall.calls) = 5

(***************************************************************************)
(* C18: CompositeLogger::enabled(m) asks the sinks in insertion order and  *)
(* stops at the first that accepts: every sink up to and including that    *)
(* one is asked once, none after it; when none accepts, every sink is      *)
(* asked once.                                                             *)
(***************************************************************************)
FirstAccepting(loggers, metadata) ==
    CHOOSE i \in Accepting(loggers, metadata) :
        \A j \in Accepting(loggers, metadata) : i <= j

C18_EnabledShortCircuits ==
    OnSelf("enabled") =>
        LET asked == IF Accepting(lastCall.loggers, lastCall.arg) = {}
                     THEN Len(lastCall.loggers)
                     ELSE FirstAccepting(lastCall.loggers, lastCall.arg)
        IN  lastCall.calls =
                [i \in 1..asked |->
                    Invocation("enabled", i, lastCall.loggers[i], lastCall.arg)]

\* Three sinks, the second the first to accept: the third is not asked.
C18_Witness ==
    /\ OnSelf("enabled")
    /\ Len(lastCall.loggers) = 3
    /\ Accepting(lastCall.loggers, lastCall.arg) = {2, 3}
    /\ Len(lastCall.calls) = 2

(***************************************************************************)
(* C14: a registration attempt that fails changes nothing observable.  No  *)
(* step of it touches STATE, LOGGER, the global level or any sink, and the *)
(* rejected dispatcher is never the one the endpoint runs on.              *)
(***************************************************************************)
LoserStep(t) ==
    /\ pc'[t] /= pc[t]
    /\ \/ pc[t] = "start" /\ state /= "UNINITIALIZED"
       \/ pc[t] = "spin"
       \/ pc[t] = "is_ok" /\ r[t] = Err

Rejected(t) == r[t] = Err \/ pc[t] = "spin"

C14_Step ==
    \A t \in Threads :
        LoserStep(t) =>
            /\ state' = state
            /\ LOGGER' = LOGGER
            /\ logger' = logger
            /\ MAX_LOG_LEVEL_FILTER' = MAX_LOG_LEVEL_FILTER
            /\ lastCall' = lastCall

C14_State ==
    \A t \in Threads :
        Rejected(t) =>
            /\ LOGGER.owner /= t
            /\ logger.owner /= t
            /\ AtEndpoint => lastCall.owner /= t

\* C14: a failed registration attempt leaves everything as it was.
C14_FailedTryInitNoEffect == [](C14_State) /\ [][C14_Step]_vars

\* A try_init with sinks of its own has returned the error while the winner is
\* still inside: the global level is still Off, and the endpoint serves the
\* winner's sinks.
C14_Witness ==
    \E t \in Threads :
        /\ pc[t] = "returned" /\ mode[t] = "try_init" /\ r[t] = Err
        /\ self[t] /= new
        /\ MAX_LOG_LEVEL_FILTER = Off
        /\ AtEndpoint /\ lastCall.owner = LOGGER.owner /\ lastCall.calls /= <<>>

(***************************************************************************)
(* C15 as stated: the dispatcher is never installed while the global level *)
(* is below its maximum, so no record a sink accepts that is logged once   *)
(* the dispatcher is installed is dropped by the global level.             *)
(***************************************************************************)
C15_AtomicInstall ==
    /\ state = "INITIALIZED" => MAX_LOG_LEVEL_FILTER = LevelFilterMax
    /\ ( /\ lastCall.via = "macro" /\ lastCall.op = "log" /\ ~lastCall.pre
         /\ Accepting(lastCall.loggers, lastCall.arg.metadata) /= {} ) =>
           lastCall.passed

(***************************************************************************)
(* C15, amended: a successful try_init is two steps for the other threads. *)
(* The dispatcher is installed first and the global level raised           *)
(* afterwards, before try_init returns; the level is below its maximum     *)
(* with the dispatcher installed only while the winning caller is between  *)
(* the two.  A record logged through the macro in that window is dropped   *)
(* by the global level; one logged once the level is raised is decided by  *)
(* the sinks alone.                                                        *)
(***************************************************************************)
C15_State ==
    /\ MAX_LOG_LEVEL_FILTER \in {Off, LevelFilterMax}
    /\ (state = "INITIALIZED" /\ MAX_LOG_LEVEL_FILTER /= LevelFilterMax) =>
          \E t \in Threads : r[t] = Ok /\ pc[t] = "is_ok" /\ LOGGER.owner = t
    /\ MAX_LOG_LEVEL_FILTER = LevelFilterMax => state = "INITIALIZED"

C15_Step ==
    (log_macro /\ state = "INITIALIZED") =>
        IF MAX_LOG_LEVEL_FILTER = LevelFilterMax
        THEN /\ lastCall'.passed
             /\ \A i \in Positions(lastCall') :
                   TimesInvoked(lastCall', "log", i) =
                       IF i \in Accepting(LOGGER.loggers, lastCall'.arg.metadata)
                       THEN 1 ELSE 0
        ELSE /\ ~lastCall'.passed
             /\ lastCall'.calls = <<>>

C15_InstallThenRaise == [](C15_State) /\ [][C15_Step]_vars

\* A record an installed sink accepts, logged after the dispatcher was installed,
\* dropped by the global level.
C15_Witness ==
    /\ lastCall.via = "macro" /\ lastCall.op = "log" /\ ~lastCall.pre
    /\ Accepting(lastCall.loggers, lastCall.arg.metadata) /= {}
    /\ ~lastCall.passed
    /\ lastCall.calls = <<>>

(***************************************************************************)
(* C20: init is try_init where registration succeeds.  A call that got Ok  *)
(* returns to its caller, whichever of the two it was, and leaves its      *)
(* dispatcher installed and the global level at its maximum; the two       *)
(* differ on the error alone, which try_init returns and init panics on.   *)
(***************************************************************************)
C20_InitAsTryInit ==
    \A t \in Threads :
        Done(t) =>
            /\ r[t] = Ok =>
                  /\ pc[t] = "returned"
                  /\ state = "INITIALIZED"
                  /\ logger = Installed(t, self[t])
                  /\ MAX_LOG_LEVEL_FILTER = LevelFilterMax
            /\ r[t] = Err => (Panicked(t) <=> mode[t] = "init")

\* init has returned from an unregistered slot, and the macro serves its sinks.
C20_Witness ==
    \E t \in Threads :
        /\ mode[t] = "init" /\ pc[t] = "returned" /\ r[t] = Ok
        /\ lastCall.via = "macro" /\ lastCall.op = "log"
        /\ lastCall.owner = t /\ lastCall.calls /= <<>>
        /\ Running

(***************************************************************************)
(* C16: log calls made at the same time by several threads on the          *)
(* registered dispatcher.  A call has got past sink i once its iterator    *)
(* has moved beyond i, and past every sink once it has returned.           *)
(***************************************************************************)
LogCalls(t) == {k \in 1..Len(program[t]) : program[t][k].op = "log"}

Deliveries(i, t, k) ==
    Cardinality({p \in 1..Len(received[i]) :
                    received[i][p].by = t /\ received[i][p].no = k})

Takes(i, t, k) ==
    /\ i \in 1..Len(logger.loggers)
    /\ SinkEnabled(logger.loggers[i], program[t][k].arg.metadata)

Past(i, t, k) == k <= ip[t] \/ (k = ip[t] + 1 /\ it[t] > i)

\* C16: under every interleaving a log call has delivered its record exactly
\* once to each accepting sink it has got past (all of them once it has returned)
\* and to no other sink, every delivery is the record of the call that made it,
\* and a sink receives the records of one thread in the order the thread logged them.
C16_LosslessSynchronous ==
    /\ \A t \in Threads : \A k \in LogCalls(t) : \A i \in 1..MaxSinks :
          Deliveries(i, t, k) = IF Takes(i, t, k) /\ Past(i, t, k) THEN 1 ELSE 0
    /\ \A i \in 1..MaxSinks : \A p \in 1..Len(received[i]) :
          LET d == received[i][p]
          IN  /\ d.by \in Threads
              /\ d.no \in LogCalls(d.by)
              /\ d.record = program[d.by][d.no].arg
    /\ \A i \in 1..MaxSinks : \A p, q \in 1..Len(received[i]) :
          (p < q /\ received[i][p].by = received[i][q].by) =>
              received[i][p].no < received[i][q].no

\* Every thread has returned from both its calls, and one sink took both records
\* of two threads, the calls of the two interleaved.
C16_Witness ==
    /\ \A t \in Threads : ip[t] = Len(program[t]) /\ it[t] = 0
    /\ \E i \in 1..MaxSinks :
          /\ Len(received[i]) >= 4
          /\ received[i][1].by = received[i][3].by
          /\ received[i][1].by /= received[i][2].by
          /\ received[i][2].by = received[i][4].by

(***************************************************************************)
(* C19: under a fair scheduler every call returns.  A thread inside        *)
(* try_init or init, the one waiting for another thread's registration     *)
(* included, comes out of it with Ok or the error; a thread inside         *)
(* enabled, log or flush comes out of it, its iterator only ever moving    *)
(* forward over the sinks.  The one thing that stops a call is the process *)
(* ending in init's panic.                                                 *)
(***************************************************************************)
Returned(t) ==
    /\ Done(t)
    /\ r[t] \in {Ok, Err}
    /\ mode[t] = "try_init" => pc[t] = "returned"

C19_Step ==
    \A t \in Threads :
        (it[t] /= 0 /\ it'[t] /= it[t]) =>
            \/ it[t] = Len(logger.loggers) + 1 /\ it'[t] = 0 /\ ip'[t] = ip[t] + 1
            \/ it[t] < it'[t] /\ it'[t] <= Len(logger.loggers) + 1 /\ ip'[t] = ip[t]

C19_EveryCallReturns ==
    /\ \A t \in Threads : InCall(t) ~> (Returned(t) \/ ~Running)
    /\ \A t \in Threads : (it[t] /= 0) ~> (it[t] = 0 \/ ~Running)
    /\ [][C19_Step]_vars

\* A try_init that lost has returned the error and the thread has been through
\* its enabled, log and flush calls while the winner is still inside try_init.
C19_Witness ==
    \E t, u \in Threads :
        /\ mode[t] = "try_init" /\ pc[t] = "returned" /\ r[t] = Err
        /\ ip[t] = Len(program[t]) /\ it[t] = 0 /\ ip[t] = 3
        /\ pc[u] = "is_ok" /\ r[u] = Ok

====
